---------------------------- MODULE Spec2Model ----------------------------
(***************************************************************************)
(* Othello move calculator: the position model (board.ts), the Zobrist     *)
(* hasher (zobrist.ts), the evaluator (evaluation.ts), the iterative        *)
(* deepening minimax search with its process-wide transposition table      *)
(* (search.ts) and the worker that runs it (engine-worker.ts).              *)
(*                                                                         *)
(* Cells are the integers of the source: 0 = empty, 1 = black, -1 = white. *)
(* A board is board[r][c], r and c in 0..7.  A move is a record            *)
(* [r |-> .., c |-> ..]; the source's null move is NullMove.               *)
(***************************************************************************)
EXTENDS Integers, Sequences, FiniteSets, TLC

\* --------------------------------------------------------------- bounds
\* How many moves the position under analysis may be away from the opening.
MaxPlies == 1
\* The largest search depth a request may ask for.
MaxDepth == 2
\* How many search requests one behaviour holds.
MaxSearches == 2

\* ------------------------------------------------------------ constants
BLACK == 1
WHITE == -1
EMPTY == 0
INFINITY == 999999
MAX_TT_SIZE == 1000000
TIMEOUT_CHECK_NODES == 1024

Rows == 0..7
Cols == 0..7

NullMove == [r |-> -1, c |-> -1]

Mv(r, c) == [r |-> r, c |-> c]

\* The four diagonals only, each listed twice.
DiagonalDirections ==
  << <<-1, -1>>, <<-1, 1>>, <<1, -1>>, <<1, 1>>,
     <<-1, -1>>, <<-1, 1>>, <<1, -1>>, <<1, 1>> >>

directions ==
  << <<-1, -1>>, <<-1, 0>>, <<-1, 1>>,
     <<0, -1>>,             <<0, 1>>,
     <<1, -1>>,  <<1, 0>>,  <<1, 1>> >>

InBoard(r, c) == r >= 0 /\ r < 8 /\ c >= 0 /\ c < 8

\* ------------------------------------------------------------- board.ts
EmptyBoard == [r \in Rows |-> [c \in Cols |-> EMPTY]]

createStartingBoard ==
  [EmptyBoard EXCEPT ![3][3] = 1, ![3][4] = -1, ![4][3] = -1, ![4][4] = 1]

\* String.fromCharCode(97 + c) for c in 0..7, and (r + 1).toString().
ColLetters == <<"a", "b", "c", "d", "e", "f", "g", "h">>
RowDigits == <<"1", "2", "3", "4", "5", "6", "7", "8">>

\* A label is kept as the pair <<letter, digit>> of its two characters;
\* the token "pass" is the one-element sequence <<"pass">>.
moveToAlgebraic(move) ==
  IF move = NullMove THEN <<"pass">>
  ELSE <<ColLetters[move.c + 1], RowDigits[move.r + 1]>>

\* The length of the run of `opponent` discs that starts at (nr, nc) and
\* continues in direction (dr, dc): the while loops of hasFlipsInDirection,
\* getFlipsInDirection and getFlippedPositions.
RECURSIVE OpponentRun(_, _, _, _, _, _)
OpponentRun(b, nr, nc, dr, dc, opponent) ==
  IF InBoard(nr, nc) /\ b[nr][nc] = opponent
  THEN 1 + OpponentRun(b, nr + dr, nc + dc, dr, dc, opponent)
  ELSE 0

\* Whether the square after a run of n discs from (r, c) holds `color`.
RunEndsOn(b, r, c, dr, dc, n, color) ==
  /\ InBoard(r + (n + 1) * dr, c + (n + 1) * dc)
  /\ b[r + (n + 1) * dr][c + (n + 1) * dc] = color

\* A run test that also accepts no opponent disc at all.
HasRunOrNone(b, r, c, dr, dc, n, color) == RunEndsOn(b, r, c, dr, dc, n, color)

HasRun(b, r, c, dr, dc, n, color) ==
  n >= 1 /\ RunEndsOn(b, r, c, dr, dc, n, color)

hasFlipsInDirection(b, r, c, dr, dc, color) ==
  HasRun(b, r, c, dr, dc, OpponentRun(b, r + dr, c + dc, dr, dc, -color), color)

AllSquares == [i \in 1..64 |-> Mv((i - 1) \div 8, (i - 1) % 8)]

generateLegalMoves(b, color) ==
  IF color = 0 THEN <<>>
  ELSE SelectSeq(AllSquares,
         LAMBDA m : /\ b[m.r][m.c] = 0
                    /\ \E d \in 1..8 :
                         hasFlipsInDirection(b, m.r, m.c,
                                             directions[d][1], directions[d][2], color))

RunSquares(b, r, c, dr, dc, n, color) ==
  IF RunEndsOn(b, r, c, dr, dc, n, color)
  THEN [i \in 1..n |-> <<r + i * dr, c + i * dc>>]
  ELSE <<>>

getFlipsInDirection(b, r, c, dr, dc, color) ==
  RunSquares(b, r, c, dr, dc, OpponentRun(b, r + dr, c + dc, dr, dc, -color), color)

RECURSIVE FlipsFrom(_, _, _, _, _)
FlipsFrom(b, r, c, color, d) ==
  IF d > 8 THEN <<>>
  ELSE getFlipsInDirection(b, r, c, directions[d][1], directions[d][2], color)
       \o FlipsFrom(b, r, c, color, d + 1)

SeqRange(s) == {s[i] : i \in 1..Len(s)}

\* newBoard with the disc placed and the squares of `changed` set to color.
Recolor(b, changed, color) ==
  [r \in Rows |-> [c \in Cols |-> IF <<r, c>> \in changed THEN color ELSE b[r][c]]]

\* The disc placed and the flips counted, but no disc turned.
PlaceWithoutFlipping(b, move, color, fl) ==
  [board |-> Recolor(b, {<<move.r, move.c>>}, color), flips |-> Len(fl)]

PlaceAndFlip(b, move, color, fl) ==
  [board |-> Recolor(b, SeqRange(fl) \cup {<<move.r, move.c>>}, color),
   flips |-> Len(fl)]

applyMove(b, move, color) ==
  IF move = NullMove THEN [board |-> b, flips |-> 0]
  ELSE PlaceAndFlip(b, move, color, FlipsFrom(b, move.r, move.c, color, 1))

\* A string other than a label is kept as the sequence of its characters.
\* The characters the model reads, each with its char code.
Chars ==
  << <<"\n", 10>>, <<" ", 32>>, <<".", 46>>,
     <<"0", 48>>, <<"1", 49>>, <<"2", 50>>, <<"3", 51>>, <<"4", 52>>,
     <<"5", 53>>, <<"6", 54>>, <<"7", 55>>, <<"8", 56>>, <<"9", 57>>,
     <<"B", 66>>, <<"W", 87>>, <<"Z", 90>>,
     <<"a", 97>>, <<"b", 98>>, <<"c", 99>>, <<"d", 100>>, <<"e", 101>>,
     <<"f", 102>>, <<"g", 103>>, <<"h", 104>>, <<"i", 105>>, <<"x", 120>> >>

charCodeAt(ch) == (CHOOSE p \in SeqRange(Chars) : p[1] = ch)[2]

\* The number NaN; no integer the conversions compute reaches this value.
\* Arithmetic on it gives NaN and every comparison with it is false.
NaN == -1000000

\* parseInt of a one-character string: its digit, or NaN.
parseInt(ch) ==
  IF charCodeAt(ch) >= 48 /\ charCodeAt(ch) <= 57 THEN charCodeAt(ch) - 48 ELSE NaN

Minus(x, y) == IF x = NaN \/ y = NaN THEN NaN ELSE x - y
LessThan(x, y) == x # NaN /\ y # NaN /\ x < y
GreaterThan(x, y) == x # NaN /\ y # NaN /\ x > y

\* Lines 41-45 of algebraicToMove for the column and row it computed.
RangeChecked(col, row) ==
  IF LessThan(col, 0) \/ GreaterThan(col, 7) \/ LessThan(row, 0) \/ GreaterThan(row, 7)
  THEN NullMove
  ELSE Mv(row, col)

algebraicToMove(algebraic) ==
  IF algebraic = <<"pass">> THEN NullMove
  ELSE IF Len(algebraic) # 2 THEN NullMove
  ELSE RangeChecked(Minus(charCodeAt(algebraic[1]), 97),
                    Minus(parseInt(algebraic[2]), 1))

CellChar(cell) == IF cell = 0 THEN "." ELSE IF cell = 1 THEN "B" ELSE "W"

\* Array.join: the lines with `sep` between them.
RECURSIVE Join(_, _)
Join(lines, sep) ==
  IF Len(lines) = 0 THEN <<>>
  ELSE IF Len(lines) = 1 THEN lines[1]
  ELSE lines[1] \o sep \o Join(Tail(lines), sep)

serializeBoard(b) ==
  Join([r \in 1..8 |-> [c \in 1..8 |-> CellChar(b[r - 1][c - 1])]], <<"\n">>)

\* The white space of String.trim among the characters read.
WhiteSpace == {" ", "\n"}

RECURSIVE TrimStart(_)
TrimStart(str) ==
  IF Len(str) > 0 /\ str[1] \in WhiteSpace THEN TrimStart(Tail(str)) ELSE str

RECURSIVE TrimEnd(_)
TrimEnd(str) ==
  IF Len(str) > 0 /\ str[Len(str)] \in WhiteSpace
  THEN TrimEnd(SubSeq(str, 1, Len(str) - 1))
  ELSE str

Trim(str) == TrimEnd(TrimStart(str))

\* The length of str up to its first separator character.
RECURSIVE PieceLen(_, _)
PieceLen(str, sep) ==
  IF Len(str) = 0 \/ str[1] = sep THEN 0 ELSE 1 + PieceLen(Tail(str), sep)

\* String.split for a one-character separator.
RECURSIVE Split(_, _)
SplitAt(str, sep, n) ==
  IF n = Len(str) THEN <<str>>
  ELSE <<SubSeq(str, 1, n)>> \o Split(SubSeq(str, n + 2, Len(str)), sep)

Split(str, sep) == SplitAt(str, sep, PieceLen(str, sep))

\* What a call hands back: the board it returned, or the error it threw.
Returns(b) == [threw |-> FALSE, error |-> <<>>, board |-> b]
Throws(message) == [threw |-> TRUE, error |-> message, board |-> <<>>]

\* Lines 196-207 for one line: the error it raises, or none.
LineError(line) ==
  IF Len(line) # 8
  THEN <<"Invalid board format: each row must have 8 columns">>
  ELSE IF \E i \in 1..8 : line[i] \notin {".", "B", "W"}
  THEN <<"Invalid character: ",
         line[CHOOSE i \in 1..8 : /\ line[i] \notin {".", "B", "W"}
                                  /\ \A j \in 1..(i - 1) : line[j] \in {".", "B", "W"}]>>
  ELSE <<>>

\* A reading of the characters that knows no white disc.
CellOfBlackOnly(ch) == IF ch = "B" THEN 1 ELSE 0

CellOf(ch) == IF ch = "." THEN 0 ELSE IF ch = "B" THEN 1 ELSE -1

\* Lines 195-210 for the 8 lines: the first line in error throws.
ParseLines(lines) ==
  IF \E k \in 1..8 : LineError(lines[k]) # <<>>
  THEN Throws(LineError(lines[CHOOSE k \in 1..8 :
                                /\ LineError(lines[k]) # <<>>
                                /\ \A j \in 1..(k - 1) : LineError(lines[j]) = <<>>]))
  ELSE Returns([r \in Rows |-> [c \in Cols |-> CellOf(lines[r + 1][c + 1])]])

CheckRows(lines) ==
  IF Len(lines) # 8 THEN Throws(<<"Invalid board format: must have 8 rows">>)
  ELSE ParseLines(lines)

deserializeBoard(str) == CheckRows(Split(Trim(str), "\n"))

\* ----------------------------------------------------------- zobrist.ts
\* ZOBRIST_PIECES[pos][colorIndex] and ZOBRIST_SIDE_TO_MOVE are 129 random
\* 64-bit constants.  A hash value is kept as the set of the constants that
\* are XOR-ed into it an odd number of times, so `hash ^= k` is the symmetric
\* difference with {k}: two hashes are equal here exactly when they are equal
\* for every choice of the random table.  Constant pos*2 + colorIndex stands
\* for ZOBRIST_PIECES[pos][colorIndex].
ZOBRIST_SIDE_TO_MOVE == 128

ZOBRIST_PIECES(pos, colorIndex) == pos * 2 + colorIndex

Xor(hash, k) == IF k \in hash THEN hash \ {k} ELSE hash \cup {k}

PieceKeys(b) ==
  {ZOBRIST_PIECES(sq[1] * 8 + sq[2], IF b[sq[1]][sq[2]] = 1 THEN 0 ELSE 1) :
     sq \in {x \in Rows \X Cols : b[x[1]][x[2]] # 0}}

\* A hash of the discs alone.
hashBoardWithoutSide(b, sideToMove) == PieceKeys(b)

hashBoard(b, sideToMove) ==
  IF sideToMove = 1 THEN Xor(PieceKeys(b), ZOBRIST_SIDE_TO_MOVE) ELSE PieceKeys(b)

RECURSIVE UpdateFlipped(_, _, _, _)
\* Lines 76-83: the old colour of a flipped square out, the new colour in.
UpdateFlipped(hash, flippedPositions, color, i) ==
  IF i > Len(flippedPositions) THEN hash
  ELSE UpdateFlipped(
         Xor(Xor(hash, ZOBRIST_PIECES(flippedPositions[i][1] * 8 + flippedPositions[i][2],
                                      IF color = 1 THEN 1 ELSE 0)),
             ZOBRIST_PIECES(flippedPositions[i][1] * 8 + flippedPositions[i][2],
                            IF color = 1 THEN 0 ELSE 1)),
         flippedPositions, color, i + 1)

\* Lines 85-89: the side constant goes in when the new side to move is black.
AddNewSide(hash, color) ==
  IF -color = 1 THEN Xor(hash, ZOBRIST_SIDE_TO_MOVE) ELSE hash

\* Line 68 toggles the side constant whatever the old side to move was.
\* The source's second parameter, _board, is never read and is left out.
updateHash(oldHash, move, color, flippedPositions) ==
  AddNewSide(
    UpdateFlipped(
      Xor(Xor(oldHash, ZOBRIST_SIDE_TO_MOVE),
          ZOBRIST_PIECES(move.r * 8 + move.c, IF color = 1 THEN 0 ELSE 1)),
      flippedPositions, color, 1),
    color)

\* -------------------------------------------------------- evaluation.ts
\* EVAL_WEIGHTS: PIECE_SQUARE 1.0, MOBILITY 78.0, FRONTIER -50.0,
\* STABILITY 100.0, DISC_DIFF 1.0.
W_PIECE_SQUARE == 1
W_MOBILITY == 78
W_FRONTIER == -50
W_STABILITY == 100
W_DISC_DIFF == 1

SQUARE_WEIGHTS ==
  << <<100, -20, 10, 5, 5, 10, -20, 100>>,
     <<-20, -50, -2, -2, -2, -2, -50, -20>>,
     <<10, -2, -1, -1, -1, -1, -2, 10>>,
     <<5, -2, -1, -1, -1, -1, -2, 5>>,
     <<5, -2, -1, -1, -1, -1, -2, 5>>,
     <<10, -2, -1, -1, -1, -1, -2, 10>>,
     <<-20, -50, -2, -2, -2, -2, -50, -20>>,
     <<100, -20, 10, 5, 5, 10, -20, 100>> >>

\* The sum of SQUARE_WEIGHTS over the squares of S.
RECURSIVE WeightSum(_)
WeightSum(S) ==
  IF S = {} THEN 0
  ELSE LET sq == CHOOSE y \in S : TRUE
       IN  SQUARE_WEIGHTS[sq[1] + 1][sq[2] + 1] + WeightSum(S \ {sq})

DiscsOf(b, color) == {sq \in Rows \X Cols : b[sq[1]][sq[2]] = color}

calculatePieceSquareScore(b, color) ==
  WeightSum(DiscsOf(b, color)) - WeightSum(DiscsOf(b, -color))

\* The sub-scores that divide are kept as fractions [num, den], den > 0.
Normalized(factor, my, opp) ==
  [num |-> factor * (my - opp), den |-> my + opp + 1]

calculateMobilityScore(b, color) ==
  Normalized(100, Len(generateLegalMoves(b, color)), Len(generateLegalMoves(b, -color)))

isFrontier(b, r, c) ==
  \E d \in 1..8 :
    /\ InBoard(r + directions[d][1], c + directions[d][2])
    /\ b[r + directions[d][1]][c + directions[d][2]] = 0

FrontierCount(b, color) ==
  Cardinality({sq \in DiscsOf(b, color) : isFrontier(b, sq[1], sq[2])})

calculateFrontierScore(b, color) ==
  Normalized(-50, FrontierCount(b, color), FrontierCount(b, -color))

\* The while loop of isDirectionStable: every square from (nr, nc) to the
\* edge holds `color` and is in `stable`.
RECURSIVE isDirectionStableFrom(_, _, _, _, _, _, _)
isDirectionStableFrom(b, stable, nr, nc, dr, dc, color) ==
  IF ~InBoard(nr, nc) THEN TRUE
  ELSE IF b[nr][nc] # color \/ <<nr, nc>> \notin stable THEN FALSE
  ELSE isDirectionStableFrom(b, stable, nr + dr, nc + dc, dr, dc, color)

isDirectionStable(b, stable, r, c, dr, dc, color) ==
  isDirectionStableFrom(b, stable, r + dr, c + dc, dr, dc, color)

isDiscStable(b, stable, r, c) ==
  /\ b[r][c] # 0
  /\ \E d \in 1..8 :
       isDirectionStable(b, stable, r, c, directions[d][1], directions[d][2], b[r][c])

\* One row-major scan of the board: a disc marked earlier in the scan is
\* already in `stable` when a later square is looked at.
RECURSIVE StableScan(_, _, _)
StableScan(b, stable, i) ==
  IF i > 64 THEN stable
  ELSE IF /\ b[(i - 1) \div 8][(i - 1) % 8] # 0
          /\ <<(i - 1) \div 8, (i - 1) % 8>> \notin stable
          /\ isDiscStable(b, stable, (i - 1) \div 8, (i - 1) % 8)
       THEN StableScan(b, stable \cup {<<(i - 1) \div 8, (i - 1) % 8>>}, i + 1)
       ELSE StableScan(b, stable, i + 1)

\* The while (changed) loop: scan again as long as a scan marked a disc.
RECURSIVE StableLoop(_, _)
RescanIfChanged(b, stable, next) ==
  IF next = stable THEN stable ELSE StableLoop(b, next)

StableLoop(b, stable) == RescanIfChanged(b, stable, StableScan(b, stable, 1))

Corners == {<<0, 0>>, <<0, 7>>, <<7, 0>>, <<7, 7>>}

calculateStableDiscs(b) ==
  StableLoop(b, {sq \in Corners : b[sq[1]][sq[2]] # 0})

StableDifference(b, color, stable) ==
  100 * (Cardinality({sq \in stable : b[sq[1]][sq[2]] = color})
         - Cardinality({sq \in stable : b[sq[1]][sq[2]] = -color}))

calculateStabilityScore(b, color) ==
  StableDifference(b, color, calculateStableDiscs(b))

calculateDiscDifferenceScore(b, color) ==
  Cardinality(DiscsOf(b, color)) - Cardinality(DiscsOf(b, -color))

\* Math.round(x) for x = num / den, den > 0: floor(x + 1/2).
MathRound(num, den) == (2 * num + den) \div (2 * den)

\* The weighted sum is taken over the rationals; the source adds doubles,
\* which agrees except when rounding error moves a sum across a half.
\* Lines 43-50 for the five sub-scores: ps, st and dd are integers, m and f
\* fractions.
WeightedSum(ps, m, f, st, dd) ==
  MathRound((W_PIECE_SQUARE * ps + W_STABILITY * st + W_DISC_DIFF * dd) * m.den * f.den
            + W_MOBILITY * m.num * f.den
            + W_FRONTIER * f.num * m.den,
            m.den * f.den)

evaluatePosition(b, color) ==
  IF color = 0 THEN 0
  ELSE WeightedSum(calculatePieceSquareScore(b, color),
                   calculateMobilityScore(b, color),
                   calculateFrontierScore(b, color),
                   calculateStabilityScore(b, color),
                   calculateDiscDifferenceScore(b, color))

\* ------------------------------------------------------------ search.ts
\* getFlippedPositions: the same walk as applyMove's, written out again in
\* search.ts.
RECURSIVE FlippedFrom(_, _, _, _, _)
FlippedFrom(b, r, c, color, d) ==
  IF d > 8 THEN <<>>
  ELSE LET dr == directions[d][1]
           dc == directions[d][2]
           n == OpponentRun(b, r + dr, c + dc, dr, dc, -color)
           nr == r + (n + 1) * dr
           nc == c + (n + 1) * dc
           directionFlips == [i \in 1..n |-> <<r + i * dr, c + i * dc>>]
       IN  (IF InBoard(nr, nc) /\ b[nr][nc] = color THEN directionFlips ELSE <<>>)
           \o FlippedFrom(b, r, c, color, d + 1)

getFlippedPositions(b, move, color) ==
  IF move = NullMove THEN <<>> ELSE FlippedFrom(b, move.r, move.c, color, 1)

\* The comparator of orderMoves on the keys of two moves: negative when a
\* sorts before b.
isCorner(move) == <<move.r, move.c>> \in Corners

KeyOf(move, after, color) ==
  [move |-> move,
   corner |-> isCorner(move),
   flips |-> after.flips,
   oppMobility |-> Len(generateLegalMoves(after.board, -color))]

OrderKey(b, move, color) == KeyOf(move, applyMove(b, move, color), color)

compareMoves(a, b) ==
  IF a.corner /\ ~b.corner THEN -1
  ELSE IF ~a.corner /\ b.corner THEN 1
  ELSE IF a.flips # b.flips THEN b.flips - a.flips
  ELSE a.oppMobility - b.oppMobility

\* Array.prototype.sort is stable: a key goes behind every key already
\* placed that does not sort after it.
RECURSIVE InsertKey(_, _, _)
InsertKey(sorted, k, i) ==
  IF i > Len(sorted) THEN Append(sorted, k)
  ELSE IF compareMoves(sorted[i], k) > 0
       THEN SubSeq(sorted, 1, i - 1) \o <<k>> \o SubSeq(sorted, i, Len(sorted))
       ELSE InsertKey(sorted, k, i + 1)

RECURSIVE SortKeys(_, _, _)
SortKeys(keys, sorted, i) ==
  IF i > Len(keys) THEN sorted
  ELSE SortKeys(keys, InsertKey(sorted, keys[i], 1), i + 1)

MovesOf(sorted) == [i \in 1..Len(sorted) |-> sorted[i].move]

orderMoves(b, moves, color) ==
  MovesOf(SortKeys([i \in 1..Len(moves) |-> OrderKey(b, moves[i], color)], <<>>, 1))

Max(a, b) == IF a >= b THEN a ELSE b
Min(a, b) == IF a <= b THEN a ELSE b

\* The transposition table is a function from the keys stored so far to
\* their entries.
TTPut(tt, key, entry) ==
  [k \in DOMAIN tt \cup {key} |-> IF k = key THEN entry ELSE tt[k]]

\* A deadline test that looks at the clock on every call.
TimeoutCheckEveryNode(nodes, deadlineSet, late) == deadlineSet /\ late

\* Line 186: the deadline test at the head of every minimax call.  `nodes`
\* is the call's own counter, set to 1 on the line before.
TimeoutCheck(nodes, deadlineSet, late) ==
  deadlineSet /\ nodes % TIMEOUT_CHECK_NODES = 0 /\ late

\* Lines 200-223: whether the entry found for the key ends the call.
ProbeHit(tt, key, depth, alpha, beta) ==
  /\ key \in DOMAIN tt
  /\ tt[key].depth >= depth
  /\ \/ tt[key].flag = "EXACT"
     \/ tt[key].flag = "LOWER" /\ tt[key].value >= beta
     \/ tt[key].flag = "UPPER" /\ tt[key].value <= alpha

\* Lines 327-334.
StoreFlag(bestScore, originalAlpha, beta) ==
  IF bestScore <= originalAlpha THEN "UPPER"
  ELSE IF bestScore >= beta THEN "LOWER"
  ELSE "EXACT"

\* An entry that forgets the best move.
TTEntryWithoutMove(boardHash, depth, bestScore, flag, bestMove) ==
  [key |-> boardHash, depth |-> depth, value |-> bestScore, flag |-> flag,
   bestMove |-> NullMove]

\* Lines 336-342: the entry stored for a searched node.
TTEntry(boardHash, depth, bestScore, flag, bestMove) ==
  [key |-> boardHash, depth |-> depth, value |-> bestScore, flag |-> flag,
   bestMove |-> bestMove]

\* Lines 230 and 249: a leaf hands the evaluation back as it is at a
\* maximising node and negated at a minimising one.
Signed(score, isMaximizing) == IF isMaximizing THEN score ELSE -score

LeafScore(b, color, isMaximizing) == Signed(evaluatePosition(b, color), isMaximizing)

\* Line 193.
CurrentColor(color, isMaximizing) == IF isMaximizing THEN color ELSE -color

\* What a minimax call returns, with the table as the call leaves it.
SearchResult(score, bestMove, pv, nodes, timeout, tt) ==
  [score |-> score, bestMove |-> bestMove, pv |-> pv, nodes |-> nodes,
   timeout |-> timeout, tt |-> tt]

\* Lines 278-281: the key of the child reached by `move`.
ChildHash(b, boardHash, move, currentColor) ==
  IF move # NullMove
  THEN updateHash(boardHash, move, currentColor, getFlippedPositions(b, move, currentColor))
  ELSE boardHash

\* Lines 299-317: the loop's variables after the child of `move` returned
\* `result`.
Adopt(st, move, result, isMaximizing) ==
  [st EXCEPT
     !.nodes = @ + result.nodes,
     !.tt = result.tt,
     !.bestScore = IF (IF isMaximizing THEN result.score > @ ELSE result.score < @)
                   THEN result.score ELSE @,
     !.bestMove = IF (IF isMaximizing THEN result.score > st.bestScore
                                      ELSE result.score < st.bestScore)
                  THEN move ELSE @,
     !.bestPV = IF (IF isMaximizing THEN result.score > st.bestScore
                                    ELSE result.score < st.bestScore)
                THEN result.pv ELSE @,
     !.alpha = IF isMaximizing THEN Max(@, result.score) ELSE @,
     !.beta = IF isMaximizing THEN @ ELSE Min(@, result.score)]

\* Lines 295-297: a child that timed out ends the loop.
Abandon(st, result) ==
  [st EXCEPT !.nodes = @ + result.nodes, !.tt = result.tt, !.timeout = TRUE]

\* minimax(board, color, depth, alpha, beta, isMaximizing, currentPV,
\* boardHash, deadline): `env` holds what the call reads besides its
\* arguments: deadlineSet (deadline is truthy), late (Date.now() > deadline
\* when the call looks) and probe (FALSE leaves the table probe of lines
\* 196-223 out).
RECURSIVE minimax(_, _, _, _, _, _, _, _, _, _)
RECURSIVE MoveLoop(_, _, _, _, _, _, _, _, _, _)

\* A loop that stops after the first move whatever the bounds are.
CutAfterFirstMove(b, color, depth, isMaximizing, currentPV, boardHash, env, orderedMoves, i, st) == st

\* Lines 320-322: the cutoff, or the next move.
CutOrContinue(b, color, depth, isMaximizing, currentPV, boardHash, env, orderedMoves, i, st) ==
  IF st.beta <= st.alpha THEN st
  ELSE MoveLoop(b, color, depth, isMaximizing, currentPV, boardHash, env,
                orderedMoves, i + 1, st)

AfterChild(b, color, depth, isMaximizing, currentPV, boardHash, env, orderedMoves, i, st, result) ==
  IF result.timeout THEN Abandon(st, result)
  ELSE CutOrContinue(b, color, depth, isMaximizing, currentPV, boardHash, env,
                     orderedMoves, i, Adopt(st, orderedMoves[i], result, isMaximizing))

\* The for loop of lines 273-323 from the i-th ordered move on; `st` holds
\* the loop's variables.
MoveLoop(b, color, depth, isMaximizing, currentPV, boardHash, env, orderedMoves, i, st) ==
  IF i > Len(orderedMoves) THEN st
  ELSE AfterChild(b, color, depth, isMaximizing, currentPV, boardHash, env,
                  orderedMoves, i, st,
                  minimax(applyMove(b, orderedMoves[i],
                                    CurrentColor(color, isMaximizing)).board,
                          color, depth - 1, st.alpha, st.beta, ~isMaximizing,
                          Append(currentPV, moveToAlgebraic(orderedMoves[i])),
                          ChildHash(b, boardHash, orderedMoves[i],
                                    CurrentColor(color, isMaximizing)),
                          env, st.tt))

\* Lines 268-271: the loop's variables before the first move.
LoopStart(alpha, beta, isMaximizing, currentPV, tt) ==
  [bestMove |-> NullMove,
   bestScore |-> IF isMaximizing THEN -INFINITY ELSE INFINITY,
   bestPV |-> currentPV,
   alpha |-> alpha, beta |-> beta,
   nodes |-> 1, tt |-> tt, timeout |-> FALSE]

\* transpositionTable.size for the table t: its entries, and the entries the
\* table holds under keys of positions that no search of a behaviour reaches.
TableSize(t, others) == Cardinality(DOMAIN t) + others

\* A store that does not look at the size of the table.
FinishUncapped(st, boardHash, depth, originalAlpha, others) ==
  IF st.timeout
  THEN SearchResult(st.bestScore, st.bestMove, st.bestPV, st.nodes, TRUE, st.tt)
  ELSE SearchResult(st.bestScore, st.bestMove, st.bestPV, st.nodes, FALSE,
                    TTPut(st.tt, boardHash,
                          TTEntry(boardHash, depth, st.bestScore,
                                  StoreFlag(st.bestScore, originalAlpha, st.beta),
                                  st.bestMove)))

\* Lines 325-350: the store and the return after the loop.
Finish(st, boardHash, depth, originalAlpha, others) ==
  IF st.timeout
  THEN SearchResult(st.bestScore, st.bestMove, st.bestPV, st.nodes, TRUE, st.tt)
  ELSE SearchResult(st.bestScore, st.bestMove, st.bestPV, st.nodes, FALSE,
                    IF TableSize(st.tt, others) < MAX_TT_SIZE
                    THEN TTPut(st.tt, boardHash,
                               TTEntry(boardHash, depth, st.bestScore,
                                       StoreFlag(st.bestScore, originalAlpha, st.beta),
                                       st.bestMove))
                    ELSE st.tt)

\* Lines 255-262: what comes back from the search after a pass.
AfterPass(result) ==
  SearchResult(result.score, NullMove, result.pv, 1 + result.nodes, FALSE, result.tt)

minimax(b, color, depth, alpha, beta, isMaximizing, currentPV, boardHash, env, tt) ==
  IF TimeoutCheck(1, env.deadlineSet, env.late)
  THEN SearchResult(-INFINITY, NullMove, currentPV, 1, TRUE, tt)
  ELSE IF env.probe /\ ProbeHit(tt, boardHash, depth, alpha, beta)
  THEN SearchResult(tt[boardHash].value, tt[boardHash].bestMove, currentPV, 1, FALSE, tt)
  ELSE IF depth = 0
  THEN SearchResult(LeafScore(b, color, isMaximizing), NullMove, currentPV, 1, FALSE, tt)
  ELSE IF Len(generateLegalMoves(b, CurrentColor(color, isMaximizing))) = 0
  THEN
    IF Len(generateLegalMoves(b, -CurrentColor(color, isMaximizing))) = 0
    THEN SearchResult(LeafScore(b, color, isMaximizing), NullMove,
                      Append(currentPV, <<"pass">>), 1, FALSE, tt)
    ELSE AfterPass(minimax(b, color, depth - 1, alpha, beta, ~isMaximizing,
                           Append(currentPV, <<"pass">>), boardHash, env, tt))
  ELSE Finish(MoveLoop(b, color, depth, isMaximizing, currentPV, boardHash, env,
                       orderMoves(b, generateLegalMoves(b, CurrentColor(color, isMaximizing)),
                                  CurrentColor(color, isMaximizing)),
                       1, LoopStart(alpha, beta, isMaximizing, currentPV, tt)),
              boardHash, depth, alpha, env.others)

\* ------------------------------------------------------------ the state
VARIABLES
  board,      \* the position the caller holds
  side,       \* the side to move in it
  plies,      \* moves played on it since the set-up
  tt,         \* transpositionTable, shared by every search of the process
  pc,         \* "idle", or "loop" while engineSearch is in its for loop
  s,          \* the locals of the running engineSearch
  elapsed,    \* Date.now() - startTime as last read by the running search
  results,    \* the EngineResults returned so far, oldest first
  searches,   \* calls of engineSearch so far
  inbox,      \* messages posted to the worker and not yet handled
  outbox,     \* responses posted by the worker and not yet handled
  shouldStop, \* the worker's flag
  serving,    \* message.requestId of the search the worker is in, or 0
  isCalculating,  \* gameState.isCalculating
  requestIdRef,   \* requestIdRef.current; 0 before the first request
  gameResult,     \* gameState.result: <<>> for null, <<r>> for a result r
  stopSentDuring, \* a stop was posted while the running search was in its loop
  stopLog,        \* the requests the stops in flight were posted for, and those
                  \* whose stop the worker has handled
  text,           \* the string handed to a conversion
  decoded,        \* what the conversion made of it
  ttOthers,       \* entries the table holds under keys of other positions
  history,        \* the page's history: the moves played, oldest first
  historyIndex,   \* the page's historyIndex: entries of history in effect
  undone          \* <<>>, or what the page showed before the Undo just made

workerVars == <<inbox, outbox, shouldStop, serving, isCalculating, requestIdRef,
                gameResult, stopSentDuring, stopLog>>

historyVars == <<history, historyIndex, undone>>

hostVars == <<inbox, outbox, shouldStop, serving, isCalculating, requestIdRef,
              gameResult, stopSentDuring, stopLog, text, decoded, ttOthers,
              history, historyIndex, undone>>

vars == <<board, side, plies, tt, pc, s, elapsed, results, searches, inbox, outbox,
          shouldStop, serving, isCalculating, requestIdRef, gameResult, stopSentDuring,
          stopLog, text, decoded, ttOthers, history, historyIndex, undone>>

\* Milliseconds a search may be seen to take, and the budgets a request may
\* give: the small one can run out, the large one cannot.
MaxElapsed == 2
TimeLimits == {1, MaxElapsed + 1}

EmptyTable == [k \in {} |-> 0]

\* The board of the pass test: black everywhere but h8, a white disc.
FullBoard == [r \in Rows |-> [c \in Cols |-> IF r = 7 /\ c = 7 THEN -1 ELSE 1]]

\* An ending: black on a1, white on b1 and a2.  Black can take either white
\* disc; white cannot move before or after.
EndingBoard == [EmptyBoard EXCEPT ![0][0] = 1, ![0][1] = -1, ![1][0] = -1]

\* The set-ups a behaviour starts from (the editor can build any board).
SetUps == { [board |-> createStartingBoard, side |-> BLACK],
            [board |-> FullBoard, side |-> WHITE],
            [board |-> EndingBoard, side |-> BLACK] }

\* No conversion has run on the text held.
NotDecoded == [op |-> "none", threw |-> FALSE, error |-> <<>>, move |-> NullMove, board |-> <<>>]

NoLocals ==
  [board |-> EmptyBoard, color |-> 0, depth |-> 0, timeLimitMs |-> 0,
   currentDepth |-> 0, nodes |-> 0, bestMove |-> NullMove, bestScore |-> -INFINITY,
   pv |-> <<>>, depthSearched |-> 0, stopped |-> FALSE,
   fresh |-> FALSE, passes |-> 0, overrun |-> FALSE]

\* The state after the modules are loaded and the page is built, but for
\* the entries of the table under other keys.
Loaded ==
  /\ \E p \in SetUps : board = p.board /\ side = p.side
  /\ plies = 0
  /\ tt = EmptyTable
  /\ pc = "idle"
  /\ s = NoLocals
  /\ elapsed = 0
  /\ results = <<>>
  /\ searches = 0
  /\ inbox = <<>>
  /\ outbox = <<>>
  /\ shouldStop = FALSE
  /\ serving = 0
  /\ isCalculating = FALSE
  /\ requestIdRef = 0
  /\ gameResult = <<>>
  /\ stopSentDuring = FALSE
  /\ stopLog = [posted |-> <<>>, handled |-> {}]
  /\ text = <<>>
  /\ decoded = NotDecoded
  /\ history = <<>>
  /\ historyIndex = 0
  /\ undone = <<>>

\* Line 17: the table is empty when the module is loaded.
Init == Loaded /\ ttOthers = 0

\* A HistoryEntry of the page (part_000 lines 147-151 and 226-230).
HistoryEntry(move, color, flips) == [move |-> move, color |-> color, flips |-> flips]

\* The move the caller holds as suggested: the best move of the last result,
\* when that result is for the position the caller is on.
suggestedMove ==
  IF /\ Len(results) > 0
     /\ results[Len(results)].board = board
     /\ results[Len(results)].color = side
  THEN results[Len(results)].bestMove
  ELSE NullMove

\* The caller plays the suggested move on its position and hands the turn
\* to the other side.
handleApplyMove ==
  /\ pc = "idle"
  /\ plies < MaxPlies
  /\ suggestedMove # NullMove
  /\ board' = applyMove(board, suggestedMove, side).board
  /\ side' = -side
  /\ plies' = plies + 1
  /\ history' = Append(SubSeq(history, 1, historyIndex),
                       HistoryEntry(suggestedMove, side,
                                    applyMove(board, suggestedMove, side).flips))
  /\ historyIndex' = historyIndex + 1
  /\ undone' = <<>>
  /\ UNCHANGED <<tt, pc, s, elapsed, results, searches>>
  /\ UNCHANGED workerVars
  /\ UNCHANGED <<text, decoded, ttOthers>>

\* A pass test that never finds the side without a move.
MustPassNever(b, color) == FALSE

Last(seq) == seq[Len(seq)]

\* Lines 40-53: the side to move has no legal move.
MustPass(b, color) == Len(generateLegalMoves(b, color)) = 0

\* The EngineResult of lines 43-52 and 121-130, with the arguments of the
\* call and what a reader of the run needs beside it: fresh (the table was
\* empty at the call), passes (depth passes run) and overrun (a pass was
\* running when the deadline passed).
EngineResult(b, color, depth, timeLimitMs, bestMove, flips, score, pv, nodes, timeMs, depthSearched, fresh, passes, overrun) ==
  [board |-> b, color |-> color, depth |-> depth, timeLimitMs |-> timeLimitMs,
   bestMove |-> bestMove, bestMoveAlgebraic |-> moveToAlgebraic(bestMove),
   flips |-> flips, score |-> score, pv |-> pv, nodes |-> nodes, timeMs |-> timeMs,
   depthSearched |-> depthSearched, fresh |-> fresh, passes |-> passes,
   overrun |-> overrun]

PassResult(b, color, depth, timeLimitMs, timeMs, fresh) ==
  EngineResult(b, color, depth, timeLimitMs, NullMove, 0, evaluatePosition(b, color),
               <<<<"pass">>>>, 1, timeMs, 0, fresh, 0, FALSE)

\* Lines 114-131: the flips of the best move, and the result.
FinalResult(l, timeMs) ==
  EngineResult(l.board, l.color, l.depth, l.timeLimitMs, l.bestMove,
               IF l.bestMove # NullMove
               THEN applyMove(l.board, l.bestMove, l.color).flips ELSE 0,
               l.bestScore, l.pv, l.nodes, timeMs, l.depthSearched,
               l.fresh, l.passes, l.overrun)

\* engineSearch(b, color, {depth, timeLimitMs}) up to its for loop.
EngineCall(b, color, depth, timeLimitMs) ==
  /\ searches' = searches + 1
  /\ tt' = tt
  /\ IF MustPass(b, color)
     THEN /\ \E t \in 0..MaxElapsed :
               results' = Append(results,
                                 PassResult(b, color, depth, timeLimitMs, t, tt = EmptyTable))
          /\ elapsed' = 0
          /\ pc' = "idle"
          /\ s' = s
     ELSE /\ pc' = "loop"
          /\ elapsed' = 0
          /\ results' = results
          /\ s' = [board |-> b, color |-> color, depth |-> depth,
                   timeLimitMs |-> timeLimitMs, currentDepth |-> 1, nodes |-> 0,
                   bestMove |-> NullMove, bestScore |-> -INFINITY, pv |-> <<>>,
                   depthSearched |-> 0, stopped |-> FALSE,
                   fresh |-> (tt = EmptyTable), passes |-> 0, overrun |-> FALSE]

\* Line 56: the condition of the for loop.
LoopRuns == s.currentDepth <= s.depth /\ ~s.stopped

\* The pass of lines 63-93 for the locals l on table t; `late` says whether
\* Date.now() > deadline when the pass looks at the clock.
RunPass(l, t, late) ==
  minimax(l.board, l.color, l.currentDepth, -INFINITY, INFINITY, TRUE, <<>>,
          hashBoard(l.board, l.color),
          [deadlineSet |-> TRUE, late |-> late, probe |-> TRUE, others |-> ttOthers], t)

\* A loop that adopts a pass but leaves depthSearched as it was.
AfterDepthNotRecorded(l, result, late) ==
  IF result.timeout
  THEN [l EXCEPT !.stopped = TRUE, !.passes = @ + 1, !.overrun = @ \/ late]
  ELSE [l EXCEPT !.nodes = @ + result.nodes,
                 !.bestMove = result.bestMove,
                 !.bestScore = result.score,
                 !.pv = result.pv,
                 !.currentDepth = @ + 1,
                 !.passes = @ + 1,
                 !.overrun = @ \/ late]

\* One iteration of the for loop that gets past the time check of line 59
\* and runs its pass; the pass is seen to end t2 ms after the start.
\* Lines 84-93: the locals after the pass returned `result`: a pass that
\* reports a timeout is dropped and ends the loop, any other is adopted.
AfterDepth(l, result, late) ==
  IF result.timeout
  THEN [l EXCEPT !.stopped = TRUE, !.passes = @ + 1, !.overrun = @ \/ late]
  ELSE [l EXCEPT !.nodes = @ + result.nodes,
                 !.bestMove = result.bestMove,
                 !.bestScore = result.score,
                 !.pv = result.pv,
                 !.depthSearched = l.currentDepth,
                 !.currentDepth = @ + 1,
                 !.passes = @ + 1,
                 !.overrun = @ \/ late]

PassStep ==
  /\ pc = "loop"
  /\ LoopRuns
  /\ elapsed < s.timeLimitMs
  /\ \E late \in {t2 > s.timeLimitMs : t2 \in elapsed..MaxElapsed} :
       \E result \in {RunPass(s, tt, late)} :
         /\ elapsed' \in {t2 \in elapsed..MaxElapsed : (t2 > s.timeLimitMs) = late}
         /\ tt' = result.tt
         /\ s' = AfterDepth(s, result, late)
  /\ UNCHANGED <<board, side, plies, pc, results, searches>>

\* engineSearch returns: the loop ended (line 56), or the time check of
\* line 59 broke out of it.
ReturnStep ==
  /\ pc = "loop"
  /\ \E t \in elapsed..MaxElapsed :
       /\ ~LoopRuns \/ t >= s.timeLimitMs
       /\ results' = Append(results, FinalResult(s, t))
  /\ elapsed' = 0
  /\ s' = NoLocals
  /\ pc' = "idle"
  /\ UNCHANGED <<board, side, plies, tt, searches>>

\* A direct call, as the tests make it, and its steps.
Search ==
  /\ pc = "idle"
  /\ searches < MaxSearches
  /\ \E depth \in 1..MaxDepth, timeLimitMs \in TimeLimits :
       EngineCall(board, side, depth, timeLimitMs)
  /\ UNCHANGED <<board, side, plies>>
  /\ UNCHANGED hostVars

EnginePass == PassStep /\ UNCHANGED hostVars

EngineReturn == ReturnStep /\ UNCHANGED hostVars

Next == handleApplyMove \/ Search \/ EnginePass \/ EngineReturn

Spec == Init /\ [][Next]_vars

\* ------------------------------------------------- a table close to full
\* Entries short of MAX_TT_SIZE that the table may be when a behaviour starts.
MaxRoom == 3

\* The process has searched other positions before: their entries are in
\* the table, which has room for MaxRoom entries or fewer.
FullTableInit ==
  /\ Loaded
  /\ board = createStartingBoard
  /\ side = BLACK
  /\ ttOthers \in {MAX_TT_SIZE - room : room \in 0..MaxRoom}

FullTableSpec == FullTableInit /\ [][Next]_vars

\* ------------------------------------------------------------ the worker
SearchMessage(b, color, depth, timeLimitMs, requestId) ==
  [cmd |-> "search", board |-> b, color |-> color, depth |-> depth,
   timeLimitMs |-> timeLimitMs, requestId |-> requestId]

StopMessage == [cmd |-> "stop"]

InfoResponse(nodes, depth, bestMoveSoFar, timeMs, requestId) ==
  [type |-> "info", nodes |-> nodes, depth |-> depth, bestMoveSoFar |-> bestMoveSoFar,
   timeMs |-> timeMs, requestId |-> requestId]

\* A response that carries the id of the first request whatever it answers.
ResultResponseFirstRequest(result, requestId) ==
  [type |-> "result", result |-> result, requestId |-> 1]

ResultResponse(result, requestId) ==
  [type |-> "result", result |-> result, requestId |-> requestId]

\* Searches the page may request in one run.
MaxRequests == 2

\* handleCalculateMove: a new request id, the search message, and the page
\* waits.  The page asks for the deepest search of the bounds.
handleCalculateMove ==
  /\ ~isCalculating
  /\ requestIdRef < MaxRequests
  /\ requestIdRef' = requestIdRef + 1
  /\ \E timeLimitMs \in TimeLimits :
       inbox' = Append(inbox, SearchMessage(board, side, MaxDepth, timeLimitMs,
                                            requestIdRef + 1))
  /\ isCalculating' = TRUE
  /\ gameResult' = <<>>
  /\ UNCHANGED <<board, side, plies, tt, pc, s, elapsed, results, searches>>
  /\ UNCHANGED <<outbox, shouldStop, serving, stopSentDuring, stopLog>>
  /\ UNCHANGED <<text, decoded, ttOthers>>
  /\ UNCHANGED historyVars

\* handleStopCalculation, reachable while the page waits: the stop message,
\* and the page stops waiting.
handleStopCalculation ==
  /\ isCalculating
  /\ inbox' = Append(inbox, StopMessage)
  /\ isCalculating' = FALSE
  /\ stopSentDuring' = (stopSentDuring \/ pc = "loop")
  /\ stopLog' = [stopLog EXCEPT !.posted = Append(@, requestIdRef)]
  /\ UNCHANGED <<board, side, plies, tt, pc, s, elapsed, results, searches>>
  /\ UNCHANGED <<outbox, shouldStop, serving, requestIdRef, gameResult>>
  /\ UNCHANGED <<text, decoded, ttOthers>>
  /\ UNCHANGED historyVars

\* workerRef.current.onmessage for the oldest response.
AppOnMessage ==
  /\ outbox # <<>>
  /\ outbox' = Tail(outbox)
  /\ IF Head(outbox).requestId = requestIdRef /\ Head(outbox).type = "result"
     THEN gameResult' = <<Head(outbox).result>> /\ isCalculating' = FALSE
     ELSE UNCHANGED <<gameResult, isCalculating>>
  /\ UNCHANGED <<board, side, plies, tt, pc, s, elapsed, results, searches>>
  /\ UNCHANGED <<inbox, shouldStop, serving, requestIdRef, stopSentDuring, stopLog>>
  /\ UNCHANGED <<text, decoded, ttOthers>>
  /\ UNCHANGED historyVars

\* A worker that takes the next message while a handler is still running.
WorkerAlwaysIdle == TRUE

\* The worker takes a message only when it is in no handler: a handler runs
\* to its first await, and engineSearch, which has none, runs to its end
\* before line 92 awaits it.
WorkerIdle == pc = "idle"

\* self.onmessage for a stop message.
WorkerStop ==
  /\ WorkerIdle
  /\ inbox # <<>>
  /\ Head(inbox).cmd = "stop"
  /\ inbox' = Tail(inbox)
  /\ shouldStop' = TRUE
  /\ UNCHANGED <<board, side, plies, tt, pc, s, elapsed, results, searches>>
  /\ stopLog' = [posted |-> Tail(stopLog.posted),
                 handled |-> stopLog.handled \cup {Head(stopLog.posted)}]
  /\ UNCHANGED <<outbox, serving, isCalculating, requestIdRef, gameResult, stopSentDuring>>
  /\ UNCHANGED <<text, decoded, ttOthers>>
  /\ UNCHANGED historyVars

\* self.onmessage for a search message up to the loop of engineSearch; a
\* search that returns at once is awaited and answered in the same turn.
WorkerSearch ==
  /\ WorkerIdle
  /\ inbox # <<>>
  /\ Head(inbox).cmd = "search"
  /\ inbox' = Tail(inbox)
  /\ shouldStop' = FALSE
  /\ EngineCall(Head(inbox).board, Head(inbox).color, Head(inbox).depth,
                Head(inbox).timeLimitMs)
  /\ IF MustPass(Head(inbox).board, Head(inbox).color)
     THEN /\ outbox' = outbox \o <<InfoResponse(0, 0, "", 0, Head(inbox).requestId),
                                   ResultResponse(Last(results'), Head(inbox).requestId)>>
          /\ serving' = 0
     ELSE /\ outbox' = Append(outbox, InfoResponse(0, 0, "", 0, Head(inbox).requestId))
          /\ serving' = Head(inbox).requestId
  /\ stopSentDuring' = FALSE
  /\ UNCHANGED <<board, side, plies, isCalculating, requestIdRef, gameResult, stopLog>>
  /\ UNCHANGED <<text, decoded, ttOthers>>
  /\ UNCHANGED historyVars

\* A depth pass of the search the worker is in, and the progress callback
\* of lines 78-90 for the pass it completed.
WorkerPass ==
  /\ serving # 0
  /\ PassStep
  /\ outbox' = IF ~s'.stopped /\ ~shouldStop
               THEN Append(outbox, InfoResponse(s'.nodes, s.currentDepth,
                                                moveToAlgebraic(s'.bestMove), elapsed',
                                                serving))
               ELSE outbox
  /\ UNCHANGED <<inbox, shouldStop, serving, isCalculating, requestIdRef, gameResult,
                 stopSentDuring, stopLog>>
  /\ UNCHANGED <<text, decoded, ttOthers>>
  /\ UNCHANGED historyVars

\* engineSearch returns to the handler, which posts the result unless
\* shouldStop is set (lines 92-112).
WorkerReturn ==
  /\ serving # 0
  /\ ReturnStep
  /\ outbox' = IF ~shouldStop
               THEN Append(outbox, ResultResponse(Last(results'), serving))
               ELSE outbox
  /\ serving' = 0
  /\ UNCHANGED <<inbox, shouldStop, isCalculating, requestIdRef, gameResult,
                 stopSentDuring, stopLog>>
  /\ UNCHANGED <<text, decoded, ttOthers>>
  /\ UNCHANGED historyVars

WorkerNext ==
  \/ handleCalculateMove
  \/ handleStopCalculation
  \/ AppOnMessage
  \/ WorkerStop
  \/ WorkerSearch
  \/ WorkerPass
  \/ WorkerReturn

\* The page opens on the starting board with Black to move.
WorkerInit == Init /\ board = createStartingBoard /\ side = BLACK

WorkerSpec == WorkerInit /\ [][WorkerNext]_vars

\* ------------------------------------- searches of one position after another
\* The deepest search a caller asks for when it searches several positions.
MaxDeep == 3

\* The board after the move the search of (b, color) tries first.
FirstChild(b, color) ==
  applyMove(b, orderMoves(b, generateLegalMoves(b, color), color)[1], color).board

\* The opening after the first-tried move of each side.
TwoPliesOn == FirstChild(FirstChild(createStartingBoard, BLACK), WHITE)

\* The searches such a caller asks for: the opening with Black to move to
\* depth MaxDeep, and the position two plies on with either side to move
\* to depth 1.
Requests == { [board |-> createStartingBoard, side |-> BLACK, depth |-> MaxDeep],
              [board |-> TwoPliesOn, side |-> BLACK, depth |-> 1],
              [board |-> TwoPliesOn, side |-> WHITE, depth |-> 1] }

\* engineSearch called on a position of the caller's choice, under a budget
\* that cannot run out: the table it runs on is the one the earlier
\* searches left.
SearchPosition ==
  /\ pc = "idle"
  /\ searches < MaxSearches
  /\ \E p \in Requests :
       /\ board' = p.board
       /\ side' = p.side
       /\ EngineCall(p.board, p.side, p.depth, MaxElapsed + 1)
  /\ UNCHANGED plies
  /\ UNCHANGED hostVars

PositionsNext == SearchPosition \/ EnginePass \/ EngineReturn

PositionsSpec == WorkerInit /\ [][PositionsNext]_vars

\* ------------------------------------------------- the board on the page
\* Clicks on the board in one behaviour.
MaxClicks == 2

engineVars == <<tt, pc, s, elapsed, results, searches>>

\* handleCellClick(row, col): a click on a legal move of the side to move
\* plays it and hands the turn over; any other click edits the square, the
\* side's disc on an empty square and nothing on an occupied one.
handleCellClick ==
  /\ plies < MaxClicks
  /\ \E row \in Rows, col \in Cols :
       IF Mv(row, col) \in SeqRange(generateLegalMoves(board, side))
       THEN /\ board' = applyMove(board, Mv(row, col), side).board
            /\ side' = -side
            /\ history' = Append(SubSeq(history, 1, historyIndex),
                                 HistoryEntry(Mv(row, col), side,
                                              applyMove(board, Mv(row, col), side).flips))
            /\ historyIndex' = historyIndex + 1
       ELSE /\ board' = [board EXCEPT ![row][col] = IF @ = 0 THEN side ELSE 0]
            /\ side' = side
            /\ UNCHANGED <<history, historyIndex>>
  /\ plies' = plies + 1
  /\ gameResult' = <<>>
  /\ undone' = <<>>
  /\ UNCHANGED engineVars
  /\ UNCHANGED <<inbox, outbox, shouldStop, serving, isCalculating, requestIdRef,
                 stopSentDuring, stopLog>>
  /\ UNCHANGED <<text, decoded, ttOthers>>

\* onSideChange: the control that sets the side to move.
onSideChange ==
  /\ \E newSide \in {BLACK, WHITE} : newSide # side /\ side' = newSide
  /\ undone' = <<>>
  /\ UNCHANGED <<board, plies>>
  /\ UNCHANGED engineVars
  /\ UNCHANGED workerVars
  /\ UNCHANGED <<text, decoded, ttOthers, history, historyIndex>>

BoardNext == handleCellClick \/ onSideChange

BoardSpec == WorkerInit /\ [][BoardNext]_vars

\* ------------------------------------------------------- the conversions
\* The longest string handed to algebraicToMove, apart from the labels.
MaxLabelLen == 3

\* Characters of the strings handed to algebraicToMove: the ends of the
\* letter and digit ranges, their neighbours, and characters of neither kind.
LabelChars == {"a", "h", "i", "Z", "1", "8", "0", "9", "x", " "}

LabelTexts ==
  UNION {[1..n -> LabelChars] : n \in 0..MaxLabelLen}
    \cup {moveToAlgebraic(Mv(r, c)) : r \in Rows, c \in Cols}
    \cup {moveToAlgebraic(NullMove)}

\* str with the character at i replaced by ch, and str without it.
ReplaceAt(str, i, ch) == [str EXCEPT ![i] = ch]
RemoveAt(str, i) == SubSeq(str, 1, i - 1) \o SubSeq(str, i + 1, Len(str))

\* Board texts and texts close to one: a character replaced or lost, blank
\* space or blank lines around the text, a row too many or too few.
TextsNear(str) ==
  {str, <<"\n">> \o str, str \o <<"\n">>, <<" ">> \o str, str \o <<" ">>,
   <<"\n", "\n">> \o str \o <<"\n">>,
   str \o <<"\n">> \o SubSeq(str, 1, 8), SubSeq(str, 1, 62)}
    \cup {ReplaceAt(str, i, ch) : i \in 1..Len(str), ch \in {"x", " ", "\n", ".", "W"}}
    \cup {RemoveAt(str, i) : i \in 1..Len(str)}

BoardTexts ==
  TextsNear(serializeBoard(createStartingBoard))
    \cup TextsNear(serializeBoard([r \in Rows |-> [c \in Cols |-> IF c < 4 THEN 1 ELSE -1]]))

\* A string arrives.
EnterText ==
  /\ text = <<>>
  /\ decoded = NotDecoded
  /\ text' \in (LabelTexts \cup BoardTexts) \ {<<>>}
  /\ UNCHANGED <<board, side, plies, decoded>>
  /\ UNCHANGED engineVars
  /\ UNCHANGED workerVars
  /\ UNCHANGED <<ttOthers, history, historyIndex, undone>>

\* algebraicToMove(text).
DecodeMove ==
  /\ decoded' = [NotDecoded EXCEPT !.op = "algebraicToMove",
                                   !.move = algebraicToMove(text)]
  /\ UNCHANGED <<board, side, plies, text>>
  /\ UNCHANGED engineVars
  /\ UNCHANGED workerVars
  /\ UNCHANGED <<ttOthers, history, historyIndex, undone>>

\* deserializeBoard(text): the board, or the error thrown.
Decoded(out) ==
  [op |-> "deserializeBoard", threw |-> out.threw, error |-> out.error,
   move |-> NullMove, board |-> out.board]

DecodeBoard ==
  /\ decoded' = Decoded(deserializeBoard(text))
  /\ UNCHANGED <<board, side, plies, text>>
  /\ UNCHANGED engineVars
  /\ UNCHANGED workerVars
  /\ UNCHANGED <<ttOthers, history, historyIndex, undone>>

TextNext == EnterText \/ DecodeMove \/ DecodeBoard

TextSpec == WorkerInit /\ [][TextNext]_vars

\* ------------------------------------------------ the history of the page
\* Lines 305-313 and 344-351: the board and the side to move rebuilt from
\* the first n entries of the history h, from entry i on.
RECURSIVE Replay(_, _, _, _, _)
Replay(b, sideToMove, h, i, n) ==
  IF i > n THEN [board |-> b, sideToMove |-> sideToMove]
  ELSE Replay(applyMove(b, h[i].move, h[i].color).board, -h[i].color, h, i + 1, n)

\* handleUndo: one entry fewer in effect, and the position rebuilt from the
\* starting board with Black to move.
handleUndo ==
  /\ historyIndex > 0
  /\ historyIndex' = historyIndex - 1
  /\ \E rebuilt \in {Replay(createStartingBoard, 1, history, 1, historyIndex - 1)} :
       board' = rebuilt.board /\ side' = rebuilt.sideToMove
  /\ gameResult' = <<>>
  /\ undone' = <<[board |-> board, side |-> side, redone |-> FALSE]>>
  /\ UNCHANGED <<plies, history>>
  /\ UNCHANGED engineVars
  /\ UNCHANGED <<inbox, outbox, shouldStop, serving, isCalculating, requestIdRef,
                 stopSentDuring, stopLog>>
  /\ UNCHANGED <<text, decoded, ttOthers>>

\* handleRedo: the next entry of the history applied to the board shown.
handleRedo ==
  /\ historyIndex < Len(history)
  /\ board' = applyMove(board, history[historyIndex + 1].move,
                        history[historyIndex + 1].color).board
  /\ side' = -history[historyIndex + 1].color
  /\ historyIndex' = historyIndex + 1
  /\ gameResult' = <<>>
  /\ undone' = IF undone # <<>> /\ ~undone[1].redone
               THEN <<[undone[1] EXCEPT !.redone = TRUE]>>
               ELSE <<>>
  /\ UNCHANGED <<plies, history>>
  /\ UNCHANGED engineVars
  /\ UNCHANGED <<inbox, outbox, shouldStop, serving, isCalculating, requestIdRef,
                 stopSentDuring, stopLog>>
  /\ UNCHANGED <<text, decoded, ttOthers>>

\* handleJumpTo(index): the history panel calls it with 1..history.length.
handleJumpTo ==
  /\ \E index \in 1..Len(history) :
       /\ \E rebuilt \in {Replay(createStartingBoard, 1, history, 1, index)} :
            board' = rebuilt.board /\ side' = rebuilt.sideToMove
       /\ historyIndex' = index
  /\ gameResult' = <<>>
  /\ undone' = <<>>
  /\ UNCHANGED <<plies, history>>
  /\ UNCHANGED engineVars
  /\ UNCHANGED <<inbox, outbox, shouldStop, serving, isCalculating, requestIdRef,
                 stopSentDuring, stopLog>>
  /\ UNCHANGED <<text, decoded, ttOthers>>

\* What handleExport writes for a board, a side and the history in effect;
\* sideToMove 0 stands for a file without the field.
Exported(b, sideToMove, h) ==
  [board |-> serializeBoard(b), sideToMove |-> sideToMove, history |-> h]

\* The opening after Black's click on its first legal move, as exported.
AfterFirstMove ==
  Exported(applyMove(createStartingBoard,
                     generateLegalMoves(createStartingBoard, BLACK)[1], BLACK).board,
           WHITE,
           <<HistoryEntry(generateLegalMoves(createStartingBoard, BLACK)[1], BLACK,
                          applyMove(createStartingBoard,
                                    generateLegalMoves(createStartingBoard, BLACK)[1],
                                    BLACK).flips)>>)

\* The files handed to handleImport: an export, a file of a set-up position
\* with neither side nor history, and a file whose board has seven rows.
Files ==
  { AfterFirstMove,
    Exported(EndingBoard, 0, <<>>),
    [board |-> SubSeq(serializeBoard(createStartingBoard), 1, 62),
     sideToMove |-> BLACK, history |-> <<>>] }

\* handleImport(data): the board, the side and the history of the file, or
\* the alert of the catch clause, which changes nothing.
handleImport ==
  \E file \in Files :
    \E out \in {deserializeBoard(file.board)} :
      IF out.threw
      THEN UNCHANGED vars
      ELSE /\ board' = out.board
           /\ side' = IF file.sideToMove = 0 THEN 1 ELSE file.sideToMove
           /\ history' = file.history
           /\ historyIndex' = Len(file.history)
           /\ gameResult' = <<>>
           /\ isCalculating' = FALSE
           /\ undone' = <<>>
           /\ UNCHANGED plies
           /\ UNCHANGED engineVars
           /\ UNCHANGED <<inbox, outbox, shouldStop, serving, requestIdRef,
                          stopSentDuring, stopLog>>
           /\ UNCHANGED <<text, decoded, ttOthers>>

HistoryNext ==
  \/ handleCellClick
  \/ onSideChange
  \/ handleImport
  \/ handleUndo
  \/ handleRedo
  \/ handleJumpTo

HistorySpec == WorkerInit /\ [][HistoryNext]_vars

\* ------------------------------------------------------------ properties
\* A search has just returned: engineSearch appended its result.
Returned == Len(results') = Len(results) + 1

\* The budget of the request cannot run out within the times a search is
\* seen to take.
Generous(r) == r.timeLimitMs > MaxElapsed

SameRequest(a, b) == a.board = b.board /\ a.color = b.color /\ a.depth = b.depth

\* C1: for the position held, either side and every legal move of that
\* side, updateHash applied to hashBoard(board, side), the move, the side and
\* the flipped squares equals hashBoard of the board after the move with
\* the opponent to move.
C1_UpdateHashIsHashBoard ==
  \A color \in {BLACK, WHITE} :
    \A move \in SeqRange(generateLegalMoves(board, color)) :
      updateHash(hashBoard(board, color), move, color,
                 getFlippedPositions(board, move, color))
        = hashBoard(applyMove(board, move, color).board, -color)

\* C2: a search in which a depth pass was still running when the deadline
\* passed drops that pass: the budget was too small for the requested depth,
\* so depthSearched is less than the requested depth.
C2_OverrunPassDiscarded ==
  \A i \in 1..Len(results) :
    results[i].overrun => results[i].depthSearched < results[i].depth

\* C3: the score and best move a depth pass gets from minimax on the shared
\* table equal those of the same call with the table probe disabled.
ProbeDisabled(l, t) ==
  minimax(l.board, l.color, l.currentDepth, -INFINITY, INFINITY, TRUE, <<>>,
          hashBoard(l.board, l.color),
          [deadlineSet |-> TRUE, late |-> FALSE, probe |-> FALSE, others |-> ttOthers], t)

C3_ProbeNeverChangesOutcome ==
  [][(pc = "loop" /\ pc' = "loop" /\ s'.depthSearched = s.currentDepth)
       => \E plain \in {ProbeDisabled(s, tt)} :
            s'.bestScore = plain.score /\ s'.bestMove = plain.bestMove]_vars

SetMax(S) == CHOOSE x \in S : \A y \in S : x >= y
SetMin(S) == CHOOSE x \in S : \A y \in S : x <= y

\* The depth-d minimax value of b for `color` with `mover` to move: the plies
\* of `color` maximise evaluatePosition(leaf, color), the plies of the
\* opponent minimise it; a side without a move passes, which takes a ply.
RECURSIVE MinimaxValue(_, _, _, _)
MinimaxValue(b, color, depth, mover) ==
  IF depth = 0 THEN evaluatePosition(b, color)
  ELSE IF Len(generateLegalMoves(b, mover)) = 0
  THEN IF Len(generateLegalMoves(b, -mover)) = 0
       THEN evaluatePosition(b, color)
       ELSE MinimaxValue(b, color, depth - 1, -mover)
  ELSE IF mover = color
  THEN SetMax({MinimaxValue(applyMove(b, m, mover).board, color, depth - 1, -mover) :
                 m \in SeqRange(generateLegalMoves(b, mover))})
  ELSE SetMin({MinimaxValue(applyMove(b, m, mover).board, color, depth - 1, -mover) :
                 m \in SeqRange(generateLegalMoves(b, mover))})

\* C4: the score of a search that completed depth d >= 1 from an empty table
\* is the depth-d minimax value of the position for the side to move, and at
\* depth 1 the best move leads to a position of the highest evaluation for
\* that side.
C4_ScoreIsMinimaxValue ==
  \A i \in 1..Len(results) :
    (results[i].fresh /\ results[i].depthSearched >= 1)
      => /\ results[i].score = MinimaxValue(results[i].board, results[i].color,
                                            results[i].depthSearched, results[i].color)
         /\ results[i].depthSearched = 1 =>
              evaluatePosition(applyMove(results[i].board, results[i].bestMove,
                                         results[i].color).board, results[i].color)
                = MinimaxValue(results[i].board, results[i].color, 1, results[i].color)

Letters == {"a", "b", "c", "d", "e", "f", "g", "h"}
Digits == {"1", "2", "3", "4", "5", "6", "7", "8"}

\* What the opening test expects of a result.
MoveFound(r) ==
  /\ r.bestMove # NullMove
  /\ Len(r.bestMoveAlgebraic) = 2
  /\ r.bestMoveAlgebraic[1] \in Letters
  /\ r.bestMoveAlgebraic[2] \in Digits
  /\ r.nodes >= 1
  /\ r.depthSearched >= 1
  /\ r.timeMs >= 0

\* C5 as stated: every search of the opening board with depth >= 1 returns a
\* move with a letter-digit label, at least one node, depthSearched >= 1 and
\* a non-negative time.
C5_OpeningSearchFindsMove ==
  \A i \in 1..Len(results) :
    (results[i].board = createStartingBoard /\ results[i].depth >= 1)
      => MoveFound(results[i])

\* C5 amended: a search of the opening board with depth >= 1 finds such a
\* move provided the time limit had not run out at the first time check of
\* the loop, so that at least one depth pass ran.
C5_OpeningSearchFindsMoveInTime ==
  \A i \in 1..Len(results) :
    (results[i].board = createStartingBoard /\ results[i].depth >= 1
       /\ results[i].passes >= 1)
      => MoveFound(results[i])

\* A search of the opening whose only pass ended after the deadline.
C5_Witness ==
  \E i \in 1..Len(results) :
    /\ results[i].board = createStartingBoard
    /\ results[i].passes = 1
    /\ results[i].overrun
    /\ MoveFound(results[i])

\* C6: a depth-2 search of the starting board for Black under a budget that
\* does not expire returns one of c4, d3, e6, f5, and these four labels are
\* exactly Black's legal moves there.
C6_OpeningMoveLabels ==
  /\ \A i \in 1..Len(results) :
       (/\ results[i].board = createStartingBoard
        /\ results[i].color = BLACK
        /\ results[i].depth = 2
        /\ Generous(results[i]))
         => results[i].bestMoveAlgebraic
              \in {<<"c", "4">>, <<"d", "3">>, <<"e", "6">>, <<"f", "5">>}
  /\ {moveToAlgebraic(m) : m \in SeqRange(generateLegalMoves(createStartingBoard, BLACK))}
       = {<<"c", "4">>, <<"d", "3">>, <<"e", "6">>, <<"f", "5">>}

\* C7: on the starting position White holds d4 and e5, Black holds e4 and
\* d5, every other square is empty, and Black's d3 flips exactly the disc
\* on d4.
C7_StartingPosition ==
  (plies = 0 /\ board = createStartingBoard)
    => /\ board[3][3] = WHITE /\ board[4][4] = WHITE
       /\ board[3][4] = BLACK /\ board[4][3] = BLACK
       /\ \A r \in Rows, c \in Cols :
            <<r, c>> \notin {<<3, 3>>, <<3, 4>>, <<4, 3>>, <<4, 4>>} => board[r][c] = EMPTY
       /\ applyMove(board, Mv(2, 3), BLACK).flips = 1
       /\ getFlippedPositions(board, Mv(2, 3), BLACK) = << <<3, 3>> >>


\* C8: a search for a side without a legal move returns at once: bestMove
\* null, label "pass", flips 0, depthSearched 0, score
\* evaluatePosition(board, side), no depth pass run, and the transposition
\* table as it was.
C8_NoMovePassResult ==
  [][(pc = "idle" /\ searches' = searches + 1
        /\ Len(generateLegalMoves(board, side)) = 0)
       => /\ Returned
          /\ pc' = "idle"
          /\ tt' = tt
          /\ Last(results').bestMove = NullMove
          /\ Last(results').bestMoveAlgebraic = <<"pass">>
          /\ Last(results').flips = 0
          /\ Last(results').depthSearched = 0
          /\ Last(results').passes = 0
          /\ Last(results').score = evaluatePosition(board, side)]_vars

\* White, left without a move by the move Black just played, was searched
\* on the table Black's search had filled.
C8_Witness ==
  /\ Len(results) > 0
  /\ Last(results).bestMoveAlgebraic = <<"pass">>
  /\ Last(results).depthSearched = 0
  /\ Last(results).board = board
  /\ Last(results).color = side
  /\ Len(generateLegalMoves(board, side)) = 0
  /\ Len(generateLegalMoves(board, -side)) > 0
  /\ tt # EmptyTable

\* The iterative deepening of engineSearch from pass k on, on table t, when
\* the budget cannot run out.
RECURSIVE Deepen(_, _, _, _, _, _)
DeepenNext(b, color, depth, k, result, best) ==
  IF result.timeout THEN best
  ELSE Deepen(b, color, depth, k + 1, result.tt, result.bestMove)

Deepen(b, color, depth, k, t, best) ==
  IF k > depth THEN best
  ELSE DeepenNext(b, color, depth, k,
                  minimax(b, color, k, -INFINITY, INFINITY, TRUE, <<>>, hashBoard(b, color),
                          [deadlineSet |-> TRUE, late |-> FALSE, probe |-> TRUE, others |-> ttOthers], t),
                  best)

\* C9: two searches of the same board, side and depth under budgets that do
\* not expire return the same best move: a search from an empty table
\* returns the move the iterative deepening from an empty table gives,
\* whatever the times it was seen to take, and a search run directly after
\* another on the shared table returns the move of the first.
C9_SameSearchSameMove ==
  /\ [](\A i \in 1..(Len(results) - 1) :
          (SameRequest(results[i], results[i + 1])
             /\ Generous(results[i]) /\ Generous(results[i + 1]))
            => results[i + 1].bestMove = results[i].bestMove)
  /\ [][(Returned /\ Last(results').fresh /\ Generous(Last(results')))
          => Last(results').bestMove
               = IF MustPass(Last(results').board, Last(results').color) THEN NullMove
                 ELSE Deepen(Last(results').board, Last(results').color,
                             Last(results').depth, 1, EmptyTable, NullMove)]_vars

\* The second of two equal searches found a move on the table the first left.
C9_Witness ==
  \E i \in 1..(Len(results) - 1) :
    /\ SameRequest(results[i], results[i + 1])
    /\ Generous(results[i]) /\ Generous(results[i + 1])
    /\ results[i].fresh /\ ~results[i + 1].fresh
    /\ results[i + 1].depth = MaxDepth
    /\ results[i + 1].bestMove # NullMove


\* C10: a stop message posted while the search is in its loop is observed
\* by that search: from then on the engine completes no further depth pass.
C10_StopObservedByRunningSearch ==
  [][(pc = "loop" /\ stopSentDuring)
       => ~(s'.passes = s.passes + 1 /\ s'.depthSearched = s.currentDepth)]_vars

\* C11: once the worker has handled the stop message the page posted for a
\* request, no step of the worker posts a 'result' response for that
\* request.
C11_NoResultAfterStopHandled ==
  [][\A i \in (Len(outbox) + 1)..Len(outbox') :
       outbox'[i].type = "result" => outbox'[i].requestId \notin stopLog.handled]_vars

\* The stop of the first request was handled, and the worker went on to
\* post the result of the second.
C11_Witness ==
  /\ 1 \in stopLog.handled
  /\ \E i \in 1..Len(outbox) : outbox[i].type = "result" /\ outbox[i].requestId = 2

\* C12: whatever the page and the worker do, an engineSearch invocation
\* starts only when none is in progress, and the transposition table
\* changes only in a step of the one search the worker is serving.
C12_OneSearchAtATime ==
  [][/\ searches' = searches + 1 => (pc = "idle" /\ serving = 0)
     /\ tt' # tt => (pc = "loop" /\ serving # 0 /\ searches' = searches)]_vars

\* The second search runs on the table the first one left, after the first
\* returned and its stop was handled.
C12_Witness ==
  /\ searches = 2
  /\ pc = "loop"
  /\ Len(results) = 1
  /\ 1 \in stopLog.handled
  /\ tt # EmptyTable

\* C13: a disc calculateStableDiscs marks stable on the position held is
\* not flipped by any legal move of the side to move.
C13_StableDiscsNeverFlip ==
  \A move \in SeqRange(generateLegalMoves(board, side)) :
    \A sq \in calculateStableDiscs(board) :
      applyMove(board, move, side).board[sq[1]][sq[2]] = board[sq[1]][sq[2]]

\* C14: for the position held and either side, the weighted frontier term
\* of evaluatePosition, EVAL_WEIGHTS.FRONTIER times the frontier sub-score,
\* is positive when the opponent has more frontier discs than the side and
\* negative when the side has more.  The sub-score is a fraction with a
\* positive denominator, so its numerator carries the sign.
C14_FrontierTermSign ==
  \A color \in {BLACK, WHITE} :
    /\ FrontierCount(board, -color) > FrontierCount(board, color)
         => W_FRONTIER * calculateFrontierScore(board, color).num > 0
    /\ FrontierCount(board, color) > FrontierCount(board, -color)
         => W_FRONTIER * calculateFrontierScore(board, color).num < 0

\* The squares of b that held the opponent of color and hold color in nb.
Turned(b, nb, color) ==
  {sq \in Rows \X Cols : b[sq[1]][sq[2]] = -color /\ nb[sq[1]][sq[2]] = color}

\* C15: for the position held, either side and every legal move of that
\* side, applyMove returns a board with the side's disc on the destination,
\* a flip count of at least 1 that is the number of squares turned from the
\* opponent's colour to the side's, and every other square as it was.  The
\* input board is a value here; applyMove writes to copies only (lines 107
\* and 110).
C15_ApplyMoveOnLegalMove ==
  \A color \in {BLACK, WHITE} :
    \A move \in SeqRange(generateLegalMoves(board, color)) :
      \E out \in {applyMove(board, move, color)} :
        /\ out.board[move.r][move.c] = color
        /\ out.flips >= 1
        /\ out.flips = Cardinality(Turned(board, out.board, color))
        /\ \A sq \in (Rows \X Cols) \ (Turned(board, out.board, color)
                                        \cup {<<move.r, move.c>>}) :
             out.board[sq[1]][sq[2]] = board[sq[1]][sq[2]]

\* A legal move that turns discs in more than one direction.
C15_Witness ==
  /\ plies > 0
  /\ \E move \in SeqRange(generateLegalMoves(board, side)) :
       /\ applyMove(board, move, side).flips >= 2
       /\ Cardinality({d \in 1..8 :
                         Len(getFlipsInDirection(board, move.r, move.c, directions[d][1],
                                                 directions[d][2], side)) > 0}) >= 2

\* From (r, c) in direction (dr, dc): n >= 1 discs of the opponent and then,
\* still on the board, a disc of color.
Bracketed(b, r, c, dr, dc, color) ==
  \E n \in 1..6 :
    /\ \A i \in 1..n : InBoard(r + i * dr, c + i * dc) /\ b[r + i * dr][c + i * dc] = -color
    /\ InBoard(r + (n + 1) * dr, c + (n + 1) * dc)
    /\ b[r + (n + 1) * dr][c + (n + 1) * dc] = color

\* C16: for the position held and either side, the squares of
\* generateLegalMoves are exactly the empty squares from which some
\* direction holds one or more opponent discs followed, on the board, by a
\* disc of the side; for side Empty the list is empty.
C16_LegalMovesAsSpecified ==
  /\ \A color \in {BLACK, WHITE} :
       SeqRange(generateLegalMoves(board, color))
         = {Mv(sq[1], sq[2]) :
              sq \in {x \in Rows \X Cols :
                        /\ board[x[1]][x[2]] = 0
                        /\ \E dr \in {-1, 0, 1}, dc \in {-1, 0, 1} :
                             /\ <<dr, dc>> # <<0, 0>>
                             /\ Bracketed(board, x[1], x[2], dr, dc, color)}}
  /\ generateLegalMoves(board, EMPTY) = <<>>

\* An edited position where the side has a legal move and also an empty
\* square next to an opponent disc that is not one.
C16_Witness ==
  /\ plies > 0
  /\ Len(generateLegalMoves(board, side)) > 0
  /\ \E r \in Rows, c \in Cols :
       /\ board[r][c] = 0
       /\ Mv(r, c) \notin SeqRange(generateLegalMoves(board, side))
       /\ \E d \in 1..8 : /\ InBoard(r + directions[d][1], c + directions[d][2])
                          /\ board[r + directions[d][1]][c + directions[d][2]] = -side

\* C17: the board createStartingBoard returns has exactly 4 legal moves for
\* Black and exactly 4 for White.
C17_OpeningHasFourMovesEach ==
  board = createStartingBoard
    => /\ Len(generateLegalMoves(board, BLACK)) = 4
       /\ Len(generateLegalMoves(board, WHITE)) = 4

\* The opening board with the turn handed to White, who has 4 moves.
C17_Witness ==
  /\ board = createStartingBoard
  /\ side = WHITE
  /\ Cardinality(SeqRange(generateLegalMoves(board, side))) = 4

\* The position built a second time, from its text.
Rebuilt(b) == deserializeBoard(serializeBoard(b)).board

\* C18: for the position held, hashBoard gives a board built a second time
\* with the same discs the same value for the same side to move, and gives
\* the position a different value when only the side to move differs.
C18_HashOfEqualBoards ==
  /\ \A color \in {BLACK, WHITE} :
       hashBoard(Rebuilt(board), color) = hashBoard(board, color)
  /\ hashBoard(board, BLACK) # hashBoard(board, WHITE)

\* A position reached by clicks, rebuilt from its text.
C18_Witness ==
  /\ plies = MaxClicks
  /\ board # createStartingBoard
  /\ ~deserializeBoard(serializeBoard(board)).threw
  /\ Rebuilt(board) = board

\* A label: one letter a-h and one digit 1-8.
IsLabel(str) == Len(str) = 2 /\ str[1] \in Letters /\ str[2] \in Digits

\* C19: algebraicToMove of the label of a move, or of 'pass', is that move,
\* and algebraicToMove of any other string is null.
C19_AlgebraicRoundTrip ==
  decoded.op = "algebraicToMove"
    => /\ \A m \in {Mv(r, c) : r \in Rows, c \in Cols} \cup {NullMove} :
            text = moveToAlgebraic(m) => decoded.move = m
       /\ (text # <<"pass">> /\ ~IsLabel(text)) => decoded.move = NullMove

\* A board text: 8 lines of 8 characters from '.', 'B', 'W', with a newline
\* between one line and the next.
IsBoardText(str) ==
  /\ Len(str) = 71
  /\ \A i \in 1..71 :
       IF i % 9 = 0 THEN str[i] = "\n" ELSE str[i] \in {".", "B", "W"}

\* C20: deserializeBoard of a string that is not a board text throws.
C20_MalformedBoardTextRejected ==
  (decoded.op = "deserializeBoard" /\ ~IsBoardText(text)) => decoded.threw

\* C21: deserializeBoard of serializeBoard of the position held returns,
\* without an error, that position.
C21_SerializeRoundTrip ==
  deserializeBoard(serializeBoard(board)) = Returns(board)

\* An edited or played position with White to move, read back from its text.
C21_Witness ==
  /\ plies > 0
  /\ side = WHITE
  /\ \E r \in Rows, c \in Cols : board[r][c] # createStartingBoard[r][c]
  /\ IsBoardText(serializeBoard(board))
  /\ deserializeBoard(serializeBoard(board)).board = board

\* The key of the node a depth pass of the locals l visits first below the
\* root: the child of the first ordered move, a minimising node entered with
\* alpha = -INFINITY and beta = INFINITY.
FirstChildKey(l) ==
  ChildHash(l.board, hashBoard(l.board, l.color),
            orderMoves(l.board, generateLegalMoves(l.board, l.color), l.color)[1],
            l.color)

\* A score strictly inside the window (-INFINITY, INFINITY).
InsideFullWindow(entry) == entry.value > -INFINITY /\ entry.value < INFINITY

\* C22: after the depth-2 pass of a search that started on an empty table,
\* the entries of the two nodes that were entered with the full window, the
\* root (maximising) and its first child (minimising), are tagged EXACT when
\* their score lies strictly inside that window.
C22_FullWindowNodeStoredExact ==
  [][(pc = "loop" /\ s.fresh /\ s.currentDepth = 2 /\ s'.depthSearched = 2)
       => \A key \in {hashBoard(s.board, s.color), FirstChildKey(s)} \cap DOMAIN tt' :
            InsideFullWindow(tt'[key]) => tt'[key].flag = "EXACT"]_vars

\* The recursion of minimax without the table, the move ordering and the
\* cutoff: leaves, game ends and passes as in lines 226-262, and at a node
\* with moves the largest (maximising) or smallest (minimising) score of
\* the children, whatever the order they are visited in.
RECURSIVE PlainMinimax(_, _, _, _)
PlainMinimax(b, color, depth, isMaximizing) ==
  IF depth = 0 THEN LeafScore(b, color, isMaximizing)
  ELSE IF Len(generateLegalMoves(b, CurrentColor(color, isMaximizing))) = 0
  THEN IF Len(generateLegalMoves(b, -CurrentColor(color, isMaximizing))) = 0
       THEN LeafScore(b, color, isMaximizing)
       ELSE PlainMinimax(b, color, depth - 1, ~isMaximizing)
  ELSE IF isMaximizing
  THEN SetMax({PlainMinimax(applyMove(b, m, CurrentColor(color, isMaximizing)).board,
                            color, depth - 1, ~isMaximizing) :
                 m \in SeqRange(generateLegalMoves(b, CurrentColor(color, isMaximizing)))})
  ELSE SetMin({PlainMinimax(applyMove(b, m, CurrentColor(color, isMaximizing)).board,
                            color, depth - 1, ~isMaximizing) :
                 m \in SeqRange(generateLegalMoves(b, CurrentColor(color, isMaximizing)))})

\* The depth pass of the locals l run on an empty table with no timeout.
PassOnEmptyTable(l) ==
  minimax(l.board, l.color, l.currentDepth, -INFINITY, INFINITY, TRUE, <<>>,
          hashBoard(l.board, l.color),
          [deadlineSet |-> TRUE, late |-> FALSE, probe |-> TRUE, others |-> 0], EmptyTable)

\* C23: for the board, side and depth of every depth pass a search runs,
\* the root score minimax returns from an empty table with no timeout is
\* the root score of the recursion without cutoff and ordering.
C23_CutoffKeepsRootScore ==
  [][(pc = "loop" /\ s'.passes = s.passes + 1)
       => PassOnEmptyTable(s).score
            = PlainMinimax(s.board, s.color, s.currentDepth, TRUE)]_vars

\* A search of the opening that completed depth 2 from an empty table and
\* visited fewer nodes than the two full trees hold (5 and 17): the cutoff
\* left children out.
C23_Witness ==
  \E i \in 1..Len(results) :
    /\ results[i].board = createStartingBoard
    /\ results[i].fresh
    /\ results[i].depthSearched = 2
    /\ results[i].nodes < 22

\* What engineSearch reports of its passes.
Reported(l) ==
  [bestMove |-> l.bestMove, score |-> l.bestScore, pv |-> l.pv,
   depthSearched |-> l.depthSearched]

\* C24: the k-th pass of a search is the pass of depth k and starts only
\* while the elapsed time is below timeLimitMs; a pass that completes sets
\* depthSearched to its depth and best move, score and principal variation
\* to what it returned, a pass that reports a timeout changes none of the
\* four; and the result returned carries the four as the last completed
\* pass left them, with 0 <= depthSearched <= depth.
C24_PassesInOrderLastCompletedReported ==
  [][/\ (pc = "loop" /\ s'.passes = s.passes + 1)
          => /\ s.currentDepth = s.passes + 1
             /\ s.depthSearched = s.passes
             /\ elapsed < s.timeLimitMs
             /\ \E result \in {RunPass(s, tt, FALSE)} :
                  IF result.timeout
                  THEN Reported(s') = Reported(s)
                  ELSE Reported(s') = [bestMove |-> result.bestMove,
                                       score |-> result.score, pv |-> result.pv,
                                       depthSearched |-> s.currentDepth]
     /\ (pc = "loop" /\ Returned)
          => /\ Last(results').bestMove = s.bestMove
             /\ Last(results').score = s.bestScore
             /\ Last(results').pv = s.pv
             /\ Last(results').depthSearched = s.depthSearched
             /\ s.depthSearched = s.passes
             /\ s.depthSearched >= 0
             /\ s.depthSearched <= s.depth]_vars

\* A search asked for depth 2 whose budget ran out after the depth-1 pass:
\* it reports the move of that pass and depthSearched 1.
C24_Witness ==
  \E i \in 1..Len(results) :
    /\ results[i].depth = 2
    /\ results[i].passes = 1
    /\ results[i].depthSearched = 1
    /\ results[i].bestMove # NullMove
    /\ Len(results[i].pv) > 0

\* C25: the table never holds more than MAX_TT_SIZE entries, and a step
\* taken while it holds MAX_TT_SIZE entries leaves every entry as it was:
\* none added, none replaced, none removed.
C25_TableCapped ==
  /\ TableSize(tt, ttOthers) <= MAX_TT_SIZE
  /\ [][/\ TableSize(tt', ttOthers') <= MAX_TT_SIZE
        /\ TableSize(tt, ttOthers) = MAX_TT_SIZE => tt' = tt /\ ttOthers' = ttOthers]_vars

\* The table filled up during a search, with entries of that search in it,
\* and a later search has run its passes on the full table.
C25_Witness ==
  /\ TableSize(tt, ttOthers) = MAX_TT_SIZE
  /\ tt # EmptyTable
  /\ Len(results) = 2
  /\ results[2].depthSearched = 2
  /\ results[2].board # results[1].board

\* C26: every result with a best move names a legal move of the side the
\* search was for on the board it was for, and reports at least one flip,
\* whatever the earlier searches left in the table.
C26_BestMoveLegal ==
  \A i \in 1..Len(results) :
    results[i].bestMove # NullMove
      => /\ results[i].bestMove
              \in SeqRange(generateLegalMoves(results[i].board, results[i].color))
         /\ results[i].flips >= 1

\* The first minimax call below the root of the pass about to run is made:
\* the probe at the root does not return.
RootSearched(l, t) ==
  ~ProbeHit(t, hashBoard(l.board, l.color), l.currentDepth, -INFINITY, INFINITY)

\* C27: in every depth pass that searches below its root, the key handed
\* to the minimax call for the first ordered move is hashBoard of the board
\* after that move with the opponent to move.
C27_ChildKeyIsHashBoard ==
  [][(pc = "loop" /\ s'.passes = s.passes + 1 /\ RootSearched(s, tt))
       => FirstChildKey(s) = hashBoard(FirstChild(s.board, s.color), -s.color)]_vars

\* C28: every result with a best move has a principal variation that is not
\* empty, begins with the label of the best move and is no longer than
\* depthSearched, also for a search run on the table an earlier search of
\* the same position left.
C28_PvStartsWithBestMove ==
  \A i \in 1..Len(results) :
    results[i].bestMove # NullMove
      => /\ Len(results[i].pv) > 0
         /\ Len(results[i].pv) <= results[i].depthSearched
         /\ results[i].pv[1] = results[i].bestMoveAlgebraic

\* The requests for which the user has pressed Stop.
StoppedRequests == SeqRange(stopLog.posted) \cup stopLog.handled

\* C29: while the request the page is on is one the user has stopped, that
\* is from the Stop until the next Calculate, gameState.result is null.
C29_NoResultShownAfterStop ==
  requestIdRef \in StoppedRequests => gameResult = <<>>

\* C30: when the last two actions on the page were an Undo and then a
\* Redo, the board and the side to move are those shown before the Undo.
C30_UndoRedoRestores ==
  \A u \in SeqRange(undone) : u.redone => board = u.board /\ side = u.side

=============================================================================
